---------------------------- MODULE Spec2Model ----------------------------
(***************************************************************************)
(* Group wavelet phase coherence with surrogate correction                 *)
(* (pymodalib/implementations/python/coherence/group_coherence.py).        *)
(*                                                                         *)
(* The model follows group_coherence_impl and dual_group_coherence_impl    *)
(* statement by statement: shape validation, the multiprocessing pool, the *)
(* three starmap calls with their worker tasks (completing in any order),  *)
(* the reassembly loops, and the surrogate statistics.                     *)
(*                                                                         *)
(* Numbers.  A coherence value is a record: Num(x), NaN or Uninit (the     *)
(* content of np.empty).  Coherences are kept in hundredths, so that the   *)
(* linear interpolation of np.nanpercentile is exact integer arithmetic.   *)
(*                                                                         *)
(* Signals.  Signal i of a group is named by its row index i; its wavelet  *)
(* transform is the token <<i>>.  A row of an out-of-core cache that was   *)
(* never written holds Blank.                                              *)
(***************************************************************************)
EXTENDS Integers, Sequences, FiniteSets, TLC

\* ------------------------------------------------------------- bounds
MaxSubjects  == 3   \* rows of a signal group: 0..MaxSubjects
MaxProcesses == 3   \* multiprocessing.cpu_count(): 1..MaxProcesses
NumScales    == 2   \* scales of a wavelet transform
MaxVal       == 3   \* a coherence is 0..MaxVal (then scaled to hundredths)

\* ------------------------------------------------------------- values
Num(x) == [k |-> "num", v |-> x]
NaN    == [k |-> "nan", v |-> 0]
Uninit == [k |-> "uninit", v |-> 0]

IsNum(x) == x.k = "num"
IsNaN(x) == x.k = "nan"

\* x - y on floats: NaN is contagious.
Minus(x, y) == IF IsNum(x) /\ IsNum(y) THEN Num(x.v - y.v) ELSE NaN

\* x < 0 on floats: every comparison with NaN is False.
Negative(x) == IsNum(x) /\ x.v < 0

Min(a, b) == IF a < b THEN a ELSE b
Max(a, b) == IF a > b THEN a ELSE b
Range(s)  == {s[t] : t \in DOMAIN s}
Scales    == 1..NumScales

\* ------------------------------------------------------------- inputs
Blank == <<>>

\* wt(signal, fs): the transform of signal i (wavelet_transform is external;
\* it is a deterministic function of the signal).
wt(i) == <<i>>

\* The percentile argument (default 95).
Percentiles == {0, 95, 100}

\* Seeds of the family of coherence tables the inputs are drawn from.
Seeds == {<<1, 2>>, <<3, 5>>}

\* A signal array: 1-D, or 2-D with `rows` rows.
Shapes == {[dim |-> 1, rows |-> 0]} \cup {[dim |-> 2, rows |-> r] : r \in 0..MaxSubjects}

\* The subjects with NaN samples in signals_a and in signals_b: none, or one
\* subject in either array or in both.
NaNPairs(n) ==
    {<<{}, {}>>} \cup UNION {{<<{i}, {}>>, <<{}, {i}>>, <<{i}, {i}>>} : i \in 0..(n - 1)}

Group(sa, sb, na, nb, sd) ==
    [a |-> sa, b |-> sb, nanA |-> na, nanB |-> nb, seed |-> sd]

\* Every pair of shapes, with plain signals.
PlainGroups == {Group(sa, sb, {}, {}, <<1, 2>>) : sa \in Shapes, sb \in Shapes}

\* Well-formed groups (N >= 2 subjects in both arrays), with every table.
CleanGroups ==
    UNION {{Group([dim |-> 2, rows |-> n], [dim |-> 2, rows |-> n], np[1], np[2], sd) :
               np \in NaNPairs(n), sd \in Seeds} : n \in 2..MaxSubjects}

Groups == PlainGroups \cup CleanGroups

\* The second group of a dual run: the first one again, or one of a few shapes.
SecondGroups(g) ==
    {g,
     Group([dim |-> 2, rows |-> 2], [dim |-> 2, rows |-> 2], {}, {}, <<3, 5>>),
     Group([dim |-> 2, rows |-> 2], [dim |-> 1, rows |-> 0], {}, {}, <<1, 2>>),
     Group([dim |-> 2, rows |-> 1], [dim |-> 2, rows |-> 1], {}, {}, <<1, 2>>)}

DualGroups == {g \in Groups : g.nanA = {} /\ g.nanB = {}}

\* ------------------------------------------------- external primitives
\* np.average(wphcoh(wt1, wt2)[0], axis=1)[s]: one scalar per scale.  The
\* primitive is a deterministic function of the two transforms; a transform
\* of a signal with NaN samples gives NaN.  Blank is the content of a fresh
\* cache row, a transform like any other.
Code(t) == IF t = Blank THEN 0 ELSE t[1] + 1

wphcoh(g, ta, tb, s) ==
    IF \/ (ta # Blank /\ ta[1] \in g.nanA)
       \/ (tb # Blank /\ tb[1] \in g.nanB)
    THEN NaN
    ELSE Num(100 * ((g.seed[1] * Code(ta) * s + g.seed[2] * Code(tb)
                      + s * Code(ta) * Code(tb) + g.seed[1] + s) % (MaxVal + 1)))

\* pymodalib.utils.chunks.array_split(np.arange(lo, hi), processes): near-equal
\* contiguous non-empty chunks in ascending order, the larger ones first; an
\* empty range (or no worker) is a configuration error.
array_split(lo, hi, processes) ==
    LET n == hi - lo IN
    IF n < 1 \/ processes < 1
    THEN [ok |-> FALSE, chunks |-> <<>>]
    ELSE LET k     == Min(processes, n)
             base  == n \div k
             extra == n % k
             size(j)  == base + (IF j <= extra THEN 1 ELSE 0)
             first(j) == lo + (j - 1) * base + Min(j - 1, extra)
         IN [ok |-> TRUE,
             chunks |-> [j \in 1..k |-> [t \in 1..size(j) |-> first(j) + t - 1]]]

\* pymodalib.cachedarray(shape=(n, ...)): n rows, nothing written yet.
cachedarray(n) == [i \in 0..(n - 1) |-> Blank]


\* ------------------------------------------------------- worker tasks
\* signals[start:end, :] of an array with `rows` rows: the rows in the slice.
slice_rows(rows, start, end) ==
    [t \in 1..Max(0, Min(end, rows) - Max(start, 0)) |-> start + t - 1]

\* cache[start:end, :, :]
slice_cache(cache, start, end) ==
    [t \in 1..Max(0, end - start) |-> cache[start + t - 1]]

\* _chunk_wt(signals_a, signals_b, fs): the transforms of a chunk of both
\* groups.  x is the row count of signals_a; signals_b[index, :] is an
\* IndexError when signals_b has fewer rows; with no row at all out_a stays None.
_chunk_wt(signals_a, signals_b) ==
    LET x == Len(signals_a) IN
    IF x > Len(signals_b)
    THEN [ok |-> FALSE, exc |-> "IndexError"]
    ELSE [ok |-> TRUE,
          none |-> (x = 0),
          a |-> [index \in 1..x |-> wt(signals_a[index])],
          b |-> [index \in 1..x |-> wt(signals_b[index])]]

\* _group_coherence(wavelet_transforms_a, wavelet_transforms_b, mask): out is
\* np.empty; a cell is computed unless the mask skips it.  Rows are those of
\* the slice (from 1), columns those of the tensor (from 0).
_group_coherence(g, wavelet_transforms_a, wavelet_transforms_b, mask) ==
    [i \in 1..Len(wavelet_transforms_a) |->
        [j \in 0..(Len(wavelet_transforms_b) - 1) |->
            [s \in Scales |->
                IF mask[i][j]
                THEN wphcoh(g, wavelet_transforms_a[i], wavelet_transforms_b[j + 1], s)
                ELSE Uninit]]]

\* What a worker returns for a task.
TaskResult(g, task) ==
    CASE task.kind = "wt"       -> [ok |-> TRUE, val |-> wt(task.row)]
      [] task.kind = "chunk_wt" -> _chunk_wt(task.sa, task.sb)
      [] task.kind = "coh"      ->
            [ok |-> TRUE, out |-> _group_coherence(g, task.wa, task.wb, task.mask)]

\* pool.starmap as if it yielded results in completion order (imap_unordered).
starmap_unordered(order, results) ==
    [t \in 1..Len(order) |-> results[order[t]]]

\* pool.starmap(f, args): the results in the order of args, whatever the order
\* in which the workers finished.
starmap(order, results) ==
    [t \in 1..Len(order) |-> results[t]]

\* ------------------------------------------------ surrogate statistics
\* The test of line 280 with `or` dropped: only row k kept.
keep_surrogate_row_only(i, j, coh_index) == i = coh_index

\* Line 280 negated: the cell stays unless i != coh_index and j != coh_index.
keep_surrogate(i, j, coh_index) == ~(i # coh_index /\ j # coh_index)

\* surrogates = coherence.copy() with every other row and column set to NaN.
surrogates_of(coherence, n, coh_index) ==
    [i \in 0..(n - 1) |->
        [j \in 0..(n - 1) |->
            [s \in Scales |->
                IF keep_surrogate(i, j, coh_index) THEN coherence[i][j][s] ELSE NaN]]]

\* np.nanpercentile(arr, q, axis=(0, 1))[s]: linear interpolation between the
\* order statistics of the non-NaN cells; NaN when there is none.
nanpercentile(arr, n, q, s) ==
    LET flat   == [t \in 1..(n * n) |-> arr[(t - 1) \div n][(t - 1) % n][s]]
        sorted == SortSeq(SelectSeq(flat, IsNum), LAMBDA x, y : x.v < y.v)
        m      == Len(sorted)
        pos    == q * (m - 1)
        lo     == pos \div 100
        hi     == Min(lo + 1, m - 1)
        fr     == pos % 100
    IN IF m = 0 THEN NaN
       ELSE Num(sorted[lo + 1].v + (fr * (sorted[hi + 1].v - sorted[lo + 1].v)) \div 100)

\* Line 284 left out.
nan_kept(x) == x

\* surr_percentile[np.isnan(surr_percentile)] = 0
nan_to_zero(x) == IF IsNaN(x) THEN Num(0) ELSE x

\* Line 288 left out.
clip_none(x) == x

\* residual_coherence[residual_coherence < 0] = 0
clip(x) == IF Negative(x) THEN Num(0) ELSE x

\* cleanup=True in the calls of dual_group_coherence_impl.
inner_cleanup_on == TRUE

\* cleanup=False in both calls of dual_group_coherence_impl.
inner_cleanup == FALSE

\* -------------------------------------------------------------- state
VARIABLES
    inp,                    \* the arguments of the outermost call
    dpc,                    \* dual_group_coherence_impl: where it is ("none": not called)
    pc,                     \* group_coherence_impl: where it is
    call,                   \* group_coherence_impl: its arguments
    err,                    \* the exception raised, "none" if none
    pools,                  \* every multiprocessing.Pool created so far: its state
    tasks, order, results,  \* the current starmap: its tasks, completion order, results
    ndispatch,              \* tasks handed to a pool by the current invocation
    xa, xb,                 \* lines 119-120
    chunks, ci,             \* the chunk plan and the loop index
    wavelet_transforms_a, wavelet_transforms_b,
    writes_a, writes_b,     \* how often each cache row was written
    coherence, cwrites,     \* the tensor, and how often each of its rows was written
    merged,                 \* the tensor as it was after line 248
    residual_coherence,
    thresh,                 \* surr_percentile of each coh_index
    cleanupLog,             \* the calls of pymodalib.cleanup()
    retval,                 \* what group_coherence_impl returned
    result1,                \* dual: line 337
    dret                    \* what dual_group_coherence_impl returned

vars == <<inp, dpc, pc, call, err, pools, tasks, order, results, ndispatch, xa, xb,
          chunks, ci, wavelet_transforms_a, wavelet_transforms_b, writes_a, writes_b,
          coherence, cwrites, merged, residual_coherence, thresh, cleanupLog,
          retval, result1, dret>>

\* The locals of group_coherence_impl.
frame == <<tasks, order, results, ndispatch, xa, xb, chunks, ci,
           wavelet_transforms_a, wavelet_transforms_b, writes_a, writes_b,
           coherence, cwrites, merged, residual_coherence, thresh, retval>>

pool_tasks == <<tasks, order, results, ndispatch>>
caches     == <<wavelet_transforms_a, wavelet_transforms_b, writes_a, writes_b>>
stats      == <<coherence, cwrites, merged, residual_coherence, thresh>>
outer      == <<inp, dpc, call, result1, dret>>

\* A fresh frame of group_coherence_impl.
NewFrame ==
    /\ tasks = <<>> /\ order = <<>> /\ results = <<>> /\ ndispatch = 0
    /\ xa = 0 /\ xb = 0 /\ chunks = <<>> /\ ci = 0
    /\ wavelet_transforms_a = <<>> /\ wavelet_transforms_b = <<>>
    /\ writes_a = <<>> /\ writes_b = <<>>
    /\ coherence = <<>> /\ cwrites = <<>> /\ merged = <<>>
    /\ residual_coherence = <<>> /\ thresh = <<>> /\ retval = <<>>

\* The frame of the next call of group_coherence_impl.
ResetFrame ==
    /\ tasks' = <<>> /\ order' = <<>> /\ results' = <<>> /\ ndispatch' = 0
    /\ xa' = 0 /\ xb' = 0 /\ chunks' = <<>> /\ ci' = 0
    /\ wavelet_transforms_a' = <<>> /\ wavelet_transforms_b' = <<>>
    /\ writes_a' = <<>> /\ writes_b' = <<>>
    /\ coherence' = <<>> /\ cwrites' = <<>> /\ merged' = <<>>
    /\ residual_coherence' = <<>> /\ thresh' = <<>> /\ retval' = <<>>

\* The outermost call: group_coherence_impl (cleanup defaults to True; it is
\* False with plain signals only), or dual_group_coherence_impl.
Inputs ==
    {[mode |-> "single", g1 |-> g, g2 |-> g, processes |-> p, percentile |-> q,
      cleanup |-> TRUE] :
        g \in Groups, p \in 1..MaxProcesses, q \in Percentiles}
    \cup
    {[mode |-> "single", g1 |-> g, g2 |-> g, processes |-> p, percentile |-> 95,
      cleanup |-> FALSE] :
        g \in PlainGroups, p \in 1..MaxProcesses}
    \cup
    UNION {{[mode |-> "dual", g1 |-> g, g2 |-> h, processes |-> p, percentile |-> q,
             cleanup |-> TRUE] :
               h \in SecondGroups(g), p \in 1..MaxProcesses, q \in Percentiles} :
           g \in DualGroups}

Init ==
    /\ inp \in Inputs
    /\ dpc = IF inp.mode = "dual" THEN "start" ELSE "none"
    /\ pc = IF inp.mode = "dual" THEN "idle" ELSE "start"
    /\ call = [g |-> inp.g1, cleanup |-> inp.cleanup]
    /\ err = "none"
    /\ pools = <<>>
    /\ cleanupLog = <<>>
    /\ result1 = <<>>
    /\ dret = <<>>
    /\ NewFrame

\* An exception leaves group_coherence_impl.
Raise(e) == pc' = "raised" /\ err' = e

\* -------------------------------------------- group_coherence_impl
\* Lines 118-131: only the shape of signals_a is unpacked, twice.  (The
\* orientation warning of lines 126-131 changes nothing and is left out.)
Validate ==
    /\ pc = "start"
    /\ IF call.g.a.dim # 2
       THEN /\ Raise("CoherenceException")
            /\ UNCHANGED <<xa, xb>>
       ELSE /\ xa' = call.g.a.rows
            /\ xb' = call.g.a.rows
            /\ pc' = "pool"
            /\ UNCHANGED err
    /\ UNCHANGED <<outer, pools, pool_tasks, chunks, ci, caches, stats, cleanupLog, retval>>

\* Lines 134-135.
CreatePool ==
    /\ pc = "pool"
    /\ pools' = Append(pools, "open")
    /\ pc' = "first"
    /\ UNCHANGED <<outer, err, frame, cleanupLog>>

\* Lines 138-143: signals_a[0, :] and signals_b[0, :] are evaluated here, then
\* the first pair of transforms is dispatched.
FirstPair ==
    /\ pc = "first"
    /\ IF call.g.a.rows = 0 \/ call.g.b.dim # 2 \/ call.g.b.rows = 0
       THEN /\ Raise("IndexError")
            /\ UNCHANGED pool_tasks
       ELSE /\ tasks' = <<[kind |-> "wt", of |-> "signals_a", row |-> 0],
                         [kind |-> "wt", of |-> "signals_b", row |-> 0]>>
            /\ order' = <<>>
            /\ results' = <<>>
            /\ ndispatch' = ndispatch + 2
            /\ pc' = "wait0"
            /\ UNCHANGED err
    /\ UNCHANGED <<outer, pools, xa, xb, chunks, ci, caches, stats, cleanupLog, retval>>

\* A worker of the pool finishes one task of the current starmap.
RunTask(t) ==
    /\ pc \in {"wait0", "wait1", "wait2"}
    /\ t \in 1..Len(tasks)
    /\ t \notin Range(order)
    /\ order' = Append(order, t)
    /\ results' = (t :> TaskResult(call.g, tasks[t])) @@ results
    /\ UNCHANGED <<outer, pc, err, pools, tasks, ndispatch, xa, xb, chunks, ci,
                   caches, stats, cleanupLog, retval>>

AllDone == Len(order) = Len(tasks)

\* starmap re-raises what a worker raised.
Failed == {t \in 1..Len(tasks) : ~results[t].ok}

\* Lines 140-155: the first pair's results give the shape; both caches are
\* allocated with xa (= xb) rows.
Allocate ==
    /\ pc = "wait0"
    /\ AllDone
    /\ wavelet_transforms_a' = cachedarray(xa)
    /\ wavelet_transforms_b' = cachedarray(xb)
    /\ writes_a' = [i \in 0..(xa - 1) |-> 0]
    /\ writes_b' = [i \in 0..(xb - 1) |-> 0]
    /\ pc' = "plan1"
    /\ UNCHANGED <<outer, err, pools, pool_tasks, xa, xb, chunks, ci, stats,
                   cleanupLog, retval>>

\* Lines 163-167: start, end = c[0], c[-1]; if start == end: end += 1.
chunk_args(c) ==
    [start |-> c[1], end |-> IF c[1] = c[Len(c)] THEN c[Len(c)] + 1 ELSE c[Len(c)]]

\* Lines 158-176: plan the chunks of the subjects 1..xa-1 and dispatch them.
PlanTransforms ==
    /\ pc = "plan1"
    /\ LET split == array_split(1, xa, inp.processes) IN
       IF ~split.ok
       THEN /\ Raise("ConfigurationError")
            /\ UNCHANGED <<chunks, pool_tasks>>
       ELSE /\ chunks' = split.chunks
            /\ tasks' = [c \in 1..Len(split.chunks) |->
                            LET r == chunk_args(split.chunks[c]) IN
                            [kind |-> "chunk_wt", start |-> r.start, end |-> r.end,
                             sa |-> slice_rows(call.g.a.rows, r.start, r.end),
                             sb |-> slice_rows(call.g.b.rows, r.start, r.end)]]
            /\ order' = <<>>
            /\ results' = <<>>
            /\ ndispatch' = ndispatch + Len(split.chunks)
            /\ pc' = "wait1"
            /\ UNCHANGED err
    /\ UNCHANGED <<outer, pools, xa, xb, ci, caches, stats, cleanupLog, retval>>

\* Lines 170-177: starmap returns, or re-raises a worker's exception.
CollectTransforms ==
    /\ pc = "wait1"
    /\ AllDone
    /\ IF Failed # {}
       THEN Raise(results[CHOOSE t \in Failed : TRUE].exc)
       ELSE /\ pc' = IF Len(chunks) = 0 THEN "plan2" ELSE "write1"
            /\ UNCHANGED err
    /\ ci' = 1
    /\ UNCHANGED <<outer, pools, pool_tasks, xa, xb, chunks, caches, stats,
                   cleanupLog, retval>>

\* cache[start:end] = rows: numpy copies row by row, or broadcasts a single row.
assign_rows(cache, start, end, rows) ==
    [i \in DOMAIN cache |->
        IF i >= start /\ i < end
        THEN (IF Len(rows) = 1 THEN rows[1] ELSE rows[i - start + 1])
        ELSE cache[i]]

count_rows(writes, start, end) ==
    [i \in DOMAIN writes |-> IF i >= start /\ i < end THEN writes[i] + 1 ELSE writes[i]]

\* Lines 180-184, one iteration: start, end = chunk[0], chunk[-1] + 1.
WriteTransforms ==
    /\ pc = "write1"
    /\ LET chunk   == chunks[ci]
           result  == starmap(order, results)[ci]
           start   == chunk[1]
           end     == chunk[Len(chunk)] + 1
       IN IF result.none
          THEN /\ Raise("TypeError")
               /\ UNCHANGED caches
          ELSE IF Len(result.a) # end - start /\ Len(result.a) # 1
          THEN /\ Raise("ValueError")
               /\ UNCHANGED caches
          ELSE /\ wavelet_transforms_a' = assign_rows(wavelet_transforms_a, start, end, result.a)
               /\ wavelet_transforms_b' = assign_rows(wavelet_transforms_b, start, end, result.b)
               /\ writes_a' = count_rows(writes_a, start, end)
               /\ writes_b' = count_rows(writes_b, start, end)
               /\ pc' = IF ci = Len(chunks) THEN "plan2" ELSE "write1"
               /\ UNCHANGED err
    /\ ci' = ci + 1
    /\ UNCHANGED <<outer, pools, pool_tasks, xa, xb, chunks, stats, cleanupLog, retval>>

\* Lines 213-214: mask.fill(True).
full_mask(n) == [i \in 0..(n - 1) |-> [j \in 0..(n - 1) |-> TRUE]]

\* Lines 210-236: the tensor is np.empty; the rows 0..xa-1 are planned in
\* chunks (start, end = c[0], c[-1] + 1), each task gets its rows of A and of
\* the mask and all of B; the caches are released; the tasks are dispatched.
PlanCoherence ==
    /\ pc = "plan2"
    /\ LET split == array_split(0, xa, inp.processes)
           mask  == full_mask(xa)
       IN IF ~split.ok
          THEN /\ Raise("ConfigurationError")
               /\ UNCHANGED <<chunks, pool_tasks, coherence, cwrites, caches>>
          ELSE /\ chunks' = split.chunks
               /\ coherence' = [i \in 0..(xa - 1) |->
                                   [j \in 0..(xa - 1) |-> [s \in Scales |-> Uninit]]]
               /\ cwrites' = [i \in 0..(xa - 1) |-> 0]
               /\ tasks' = [c \in 1..Len(split.chunks) |->
                               LET ch    == split.chunks[c]
                                   start == ch[1]
                                   end   == ch[Len(ch)] + 1
                               IN [kind |-> "coh", start |-> start, end |-> end,
                                   wa |-> slice_cache(wavelet_transforms_a, start, end),
                                   wb |-> slice_cache(wavelet_transforms_b, 0, xb),
                                   mask |-> slice_cache(mask, start, end)]]
               /\ order' = <<>>
               /\ results' = <<>>
               /\ ndispatch' = ndispatch + Len(split.chunks)
               /\ wavelet_transforms_a' = <<>>
               /\ wavelet_transforms_b' = <<>>
               /\ UNCHANGED <<writes_a, writes_b>>
               /\ pc' = "wait2"
               /\ UNCHANGED err
    /\ UNCHANGED <<outer, pools, xa, xb, ci, merged, residual_coherence, thresh,
                   cleanupLog, retval>>

\* Lines 236-237.
CollectCoherence ==
    /\ pc = "wait2"
    /\ AllDone
    /\ pc' = "write2"
    /\ ci' = 1
    /\ UNCHANGED <<outer, err, pools, pool_tasks, xa, xb, chunks, caches, stats,
                   cleanupLog, retval>>

\* Lines 240-243, one iteration: coherence[start:end, :] = result[:, :].
WriteCoherence ==
    /\ pc = "write2"
    /\ LET chunk  == chunks[ci]
           result == starmap(order, results)[ci].out
           start  == chunk[1]
           end    == chunk[Len(chunk)] + 1
       IN IF Len(result) # end - start /\ Len(result) # 1
          THEN /\ Raise("ValueError")
               /\ UNCHANGED <<coherence, cwrites>>
          ELSE /\ coherence' = assign_rows(coherence, start, end, result)
               /\ cwrites' = count_rows(cwrites, start, end)
               /\ pc' = IF ci = Len(chunks) THEN "mask" ELSE "write2"
               /\ UNCHANGED err
    /\ ci' = ci + 1
    /\ UNCHANGED <<outer, pools, pool_tasks, xa, xb, chunks, caches, merged,
                   residual_coherence, thresh, cleanupLog, retval>>

\* Lines 245-248: coherence[~mask, :] = np.nan.
MaskSkipped ==
    /\ pc = "mask"
    /\ LET mask == full_mask(xa)
       IN /\ coherence' = [i \in 0..(xa - 1) |->
                              [j \in 0..(xa - 1) |->
                                  [s \in Scales |->
                                      IF ~mask[i][j] THEN NaN ELSE coherence[i][j][s]]]]
          /\ merged' = coherence'
    /\ results' = <<>>
    /\ pc' = "diag"
    /\ UNCHANGED <<outer, err, pools, tasks, order, ndispatch, xa, xb, chunks, ci,
                   caches, cwrites, residual_coherence, thresh, cleanupLog, retval>>

\* Lines 263-269: real_coherences is a copy of the diagonal (advanced
\* indexing), then the diagonal becomes NaN; residual_coherence is that copy.
TakeDiagonal ==
    /\ pc = "diag"
    /\ residual_coherence' = [k \in 0..(xa - 1) |-> coherence[k][k]]
    /\ coherence' = [i \in 0..(xa - 1) |->
                        [j \in 0..(xa - 1) |->
                            [s \in Scales |-> IF i = j THEN NaN ELSE coherence[i][j][s]]]]
    /\ thresh' = <<>>
    /\ ci' = 0
    /\ pc' = IF xa = 0 THEN "clip" ELSE "loop"
    /\ UNCHANGED <<outer, err, pools, pool_tasks, xa, xb, chunks, caches, cwrites,
                   merged, cleanupLog, retval>>

\* Lines 272-286, one iteration (coh_index = ci).
SubtractSurrogates ==
    /\ pc = "loop"
    /\ LET surrogates      == surrogates_of(coherence, xa, ci)
           surr_percentile ==
               [s \in Scales |->
                   nan_to_zero(nanpercentile(surrogates, xa, inp.percentile, s))]
       IN /\ thresh' = (ci :> surr_percentile) @@ thresh
          /\ residual_coherence' =
                 [residual_coherence EXCEPT
                     ![ci] = [s \in Scales |-> Minus(@[s], surr_percentile[s])]]
    /\ ci' = ci + 1
    /\ pc' = IF ci + 1 = xa THEN "clip" ELSE "loop"
    /\ UNCHANGED <<outer, err, pools, pool_tasks, xa, xb, chunks, caches, coherence,
                   cwrites, merged, cleanupLog, retval>>

\* Line 288.
Clip ==
    /\ pc = "clip"
    /\ residual_coherence' =
           [k \in 0..(xa - 1) |-> [s \in Scales |-> clip(residual_coherence[k][s])]]
    /\ pc' = "finish"
    /\ UNCHANGED <<outer, err, pools, pool_tasks, xa, xb, chunks, ci, caches, coherence,
                   cwrites, merged, thresh, cleanupLog, retval>>

\* Lines 290-296: the tensor is dropped, the caches are cleaned up if asked,
\* the result is returned.  Nothing closes or terminates the pool.
Finish ==
    /\ pc = "finish"
    /\ coherence' = <<>>
    /\ cleanupLog' = IF call.cleanup
                     THEN Append(cleanupLog,
                                 [by |-> "group_coherence_impl", at |-> dpc, pc |-> pc])
                     ELSE cleanupLog
    /\ retval' = residual_coherence
    /\ pc' = "returned"
    /\ UNCHANGED <<outer, err, pools, pool_tasks, xa, xb, chunks, ci, caches, cwrites,
                   merged, residual_coherence, thresh>>

\* The pool of line 135 is referenced by the local `pool` alone.  Once the
\* invocation that made it has exited the object is garbage, and the
\* interpreter may finalize it (terminating its workers) at any later moment,
\* or never.
Exited(p) == p < Len(pools) \/ pc \in {"returned", "raised", "idle"}

FinalizePool(p) ==
    /\ p \in 1..Len(pools)
    /\ pools[p] = "open"
    /\ Exited(p)
    /\ pools' = [pools EXCEPT ![p] = "terminated"]
    /\ UNCHANGED <<outer, pc, err, frame, cleanupLog>>

\* ---------------------------------------- dual_group_coherence_impl
\* Lines 312-335: four 2-D arrays, each group's two arrays of the same shape.
DualValidate ==
    /\ dpc = "start"
    /\ IF \/ inp.g1.a.dim # 2 \/ inp.g1.b.dim # 2
          \/ inp.g2.a.dim # 2 \/ inp.g2.b.dim # 2
          \/ inp.g1.a.rows # inp.g1.b.rows
          \/ inp.g2.a.rows # inp.g2.b.rows
       THEN dpc' = "raised" /\ err' = "CoherenceException"
       ELSE dpc' = "call1" /\ UNCHANGED err
    /\ UNCHANGED <<inp, pc, call, result1, dret, pools, frame, cleanupLog>>

\* Lines 337-345: the first group's run, with cleanup=False.
DualCall1 ==
    /\ dpc = "call1"
    /\ call' = [g |-> inp.g1, cleanup |-> inner_cleanup]
    /\ pc' = "start"
    /\ dpc' = "run1"
    /\ UNCHANGED <<inp, err, result1, dret, pools, frame, cleanupLog>>

\* Lines 346-354: result1 is kept, the second group's run starts in a new frame.
DualCall2 ==
    /\ dpc = "run1"
    /\ pc = "returned"
    /\ result1' = retval
    /\ call' = [g |-> inp.g2, cleanup |-> inner_cleanup]
    /\ pc' = "start"
    /\ dpc' = "run2"
    /\ ResetFrame
    /\ UNCHANGED <<inp, err, dret, pools, cleanupLog>>

\* An exception of either run leaves dual_group_coherence_impl as well.
DualPropagate ==
    /\ dpc \in {"run1", "run2"}
    /\ pc = "raised"
    /\ dpc' = "raised"
    /\ pc' = "idle"
    /\ UNCHANGED <<inp, call, err, result1, dret, pools, frame, cleanupLog>>

\* Line 356.
DualCleanup ==
    /\ dpc = "run2"
    /\ pc = "returned"
    /\ cleanupLog' = Append(cleanupLog,
                            [by |-> "dual_group_coherence_impl", at |-> dpc, pc |-> pc])
    /\ dpc' = "cleaned"
    /\ pc' = "idle"
    /\ UNCHANGED <<inp, call, err, result1, dret, pools, frame>>

\* Lines 358-364.
DualReturn ==
    /\ dpc = "cleaned"
    /\ dret' = [coh1 |-> result1, coh2 |-> retval]
    /\ dpc' = "returned"
    /\ UNCHANGED <<inp, pc, call, err, result1, pools, frame, cleanupLog>>

\* ------------------------------------------------------ specification
Next ==
    \/ Validate
    \/ CreatePool
    \/ FirstPair
    \/ \E t \in 1..(MaxSubjects + MaxProcesses) : RunTask(t)
    \/ Allocate
    \/ PlanTransforms
    \/ CollectTransforms
    \/ WriteTransforms
    \/ PlanCoherence
    \/ CollectCoherence
    \/ WriteCoherence
    \/ MaskSkipped
    \/ TakeDiagonal
    \/ SubtractSurrogates
    \/ Clip
    \/ Finish
    \/ \E p \in 1..2 : FinalizePool(p)
    \/ DualValidate
    \/ DualCall1
    \/ DualCall2
    \/ DualPropagate
    \/ DualCleanup
    \/ DualReturn

Spec == Init /\ [][Next]_vars

\* ------------------------------------------------------------ claims
Terminal == pc \in {"returned", "raised"}
Single   == inp.mode = "single"

\* C1: a group with fewer than two subjects (0 or 1 rows in signals_a or
\* signals_b, or a 1-D array) ends in CoherenceException, with no pool created
\* and no task dispatched.
FewSubjects(g) ==
    g.a.dim # 2 \/ g.b.dim # 2 \/ g.a.rows < 2 \/ g.b.rows < 2

\* Two 2-D arrays of the same N >= 2 subjects.
WellFormed(g) == ~FewSubjects(g) /\ g.a.rows = g.b.rows

C1_RejectedBeforePool ==
    (Single /\ FewSubjects(call.g)) =>
        /\ pools = <<>>
        /\ ndispatch = 0
        /\ pc # "returned"
        /\ (pc = "raised" => err = "CoherenceException")

\* C2: after the transform stage (of a run on N >= 2 subjects) every row i of
\* both caches, row 0 included, holds the transform of signal i and was written
\* exactly once.
C2_EveryRowHoldsItsTransform ==
    (pc = "plan2" /\ WellFormed(call.g)) =>
        \A i \in 0..(xa - 1) :
            /\ wavelet_transforms_a[i] = wt(i) /\ writes_a[i] = 1
            /\ wavelet_transforms_b[i] = wt(i) /\ writes_b[i] = 1

\* C3: for N >= 2 subjects the sub-ranges [start, end) dispatched to the
\* workers are non-empty, contiguous, disjoint, ascending and cover the planned
\* index range, and the range of a one-element chunk holds exactly that element.
C3_DispatchedRangesCover ==
    (pc \in {"wait1", "wait2"} /\ WellFormed(call.g)) =>
        LET lo == IF pc = "wait1" THEN 1 ELSE 0
            n  == Len(tasks)
        IN /\ n >= 1
           /\ tasks[1].start = lo
           /\ tasks[n].end = xa
           /\ \A t \in 1..n : tasks[t].start < tasks[t].end
           /\ \A t \in 1..(n - 1) : tasks[t].end = tasks[t + 1].start
           /\ \A t \in 1..n :
                  Len(chunks[t]) = 1 =>
                      /\ tasks[t].start = chunks[t][1]
                      /\ tasks[t].end = chunks[t][1] + 1

\* C4: when an invocation exits, by return or by exception, every pool it
\* created has been released.
C4_PoolReleasedAtExit ==
    Terminal => \A p \in 1..Len(pools) : pools[p] = "terminated"

\* C5: in a dual run no inner run cleans up; there is exactly one cleanup, by
\* dual_group_coherence_impl itself, after the second run has returned and
\* before the function returns.
C5_CleanupDeferred ==
    inp.mode = "dual" =>
        cleanupLog = IF dpc \in {"cleaned", "returned"}
                     THEN <<[by |-> "dual_group_coherence_impl", at |-> "run2",
                             pc |-> "returned"]>>
                     ELSE <<>>

C5_Witness == inp.mode = "dual" /\ dpc = "returned" /\ Len(pools) = 2

\* C6 as stated: every element of the returned Residual Coherence is >= 0.
C6_AllNonNegative ==
    pc = "returned" =>
        \A k \in 0..(xa - 1) : \A s \in Scales :
            IsNum(retval[k][s]) /\ retval[k][s].v >= 0

\* C6 amended: no element of the returned Residual Coherence is negative; an
\* element is NaN exactly when the subject's diagonal coherence is NaN at that
\* scale, and >= 0 otherwise.
C6_NoNegativeResidual ==
    pc = "returned" =>
        \A k \in 0..(xa - 1) : \A s \in Scales :
            IF IsNaN(merged[k][k][s])
            THEN IsNaN(retval[k][s])
            ELSE IsNum(retval[k][s]) /\ retval[k][s].v >= 0

C6_Witness ==
    /\ pc = "returned"
    /\ \E k \in 0..(xa - 1) : \E s \in Scales :
           /\ Negative(Minus(merged[k][k][s], thresh[k][s]))
           /\ retval[k][s] = Num(0)
    /\ \E k \in 0..(xa - 1) : \E s \in Scales : IsNaN(retval[k][s])

\* The cells the claims name as the surrogates of subject k: row k and
\* column k of the merged tensor, without the diagonal cell.
SurrogateCells(n, k) ==
    {c \in (0..(n - 1)) \X (0..(n - 1)) : (c[1] = k \/ c[2] = k) /\ c[1] # c[2]}

\* The percentile of exactly these cells of tensor t, 0 when all are NaN.
CellPercentile(t, n, k, q, s) ==
    LET only == [i \in 0..(n - 1) |->
                    [j \in 0..(n - 1) |->
                        [z \in Scales |->
                            IF <<i, j>> \in SurrogateCells(n, k) THEN t[i][j][z] ELSE NaN]]]
        p == nanpercentile(only, n, q, s)
    IN IF IsNaN(p) THEN Num(0) ELSE p

\* The run as a function of its inputs, with `processes` workers: what every
\* row of the caches holds after the transform stage (each row is decided by
\* the one chunk that contains it), then the tensor and the residual.
RefOutcome(g, processes, q) ==
    LET n     == g.a.rows
        split == array_split(1, n, processes)
        ch(c) == split.chunks[c]
        sent(c) == chunk_args(ch(c))
        got(c)  == Len(slice_rows(g.a.rows, sent(c).start, sent(c).end))
        gotB(c) == Len(slice_rows(g.b.rows, sent(c).start, sent(c).end))
        nch   == Len(split.chunks)
        home(i) == CHOOSE c \in 1..nch : i \in Range(ch(c))
        row(i)  == IF i = 0 THEN Blank
                   ELSE IF got(home(i)) = 1 THEN wt(sent(home(i)).start)
                   ELSE wt(i)
        tensor == [i \in 0..(n - 1) |-> [j \in 0..(n - 1) |->
                      [s \in Scales |-> wphcoh(g, row(i), row(j), s)]]]
        res == [k \in 0..(n - 1) |-> [s \in Scales |->
                   LET d == Minus(tensor[k][k][s], CellPercentile(tensor, n, k, q, s))
                   IN IF Negative(d) THEN Num(0) ELSE d]]
    IN CASE g.a.dim # 2 -> [err |-> "CoherenceException", residual |-> <<>>]
         [] g.a.dim = 2 /\ (n = 0 \/ g.b.dim # 2 \/ g.b.rows = 0) ->
                [err |-> "IndexError", residual |-> <<>>]
         [] g.a.dim = 2 /\ n > 0 /\ g.b.dim = 2 /\ g.b.rows > 0 /\ ~split.ok ->
                [err |-> "ConfigurationError", residual |-> <<>>]
         [] OTHER ->
                IF \E c \in 1..nch : gotB(c) < got(c)
                THEN [err |-> "IndexError", residual |-> <<>>]
                ELSE IF \E c \in 1..nch : got(c) # Len(ch(c)) /\ got(c) # 1
                THEN [err |-> "ValueError", residual |-> <<>>]
                ELSE [err |-> "none", residual |-> res]

\* C7: the result does not depend on the order in which the workers finish:
\* every cache row and every tensor row is written by at most one task's
\* result, the returned Residual Coherence is the function of the inputs that
\* RefOutcome computes, and the two runs of a dual call on identical groups
\* return identical Residual Coherence.
C7_CompletionOrderIrrelevant ==
    /\ \A i \in DOMAIN writes_a : writes_a[i] <= 1 /\ writes_b[i] <= 1
    /\ \A i \in DOMAIN cwrites : cwrites[i] <= 1
    /\ (pc = "returned" =>
            /\ err = "none"
            /\ retval = RefOutcome(call.g, inp.processes, inp.percentile).residual)
    /\ (dpc = "returned" /\ inp.g1 = inp.g2 => dret.coh1 = dret.coh2)

\* Two runs on identical inputs whose workers finished in different orders.
C7_Witness ==
    /\ dpc = "returned"
    /\ inp.g1 = inp.g2
    /\ Len(order) >= 2
    /\ order[1] # 1
    /\ \E i, j \in DOMAIN dret.coh2 : dret.coh2[i] # dret.coh2[j]

\* C8: the threshold of subject k is, per scale, the percentile of exactly the
\* cells of row k and column k of the merged tensor without cell (k, k); the
\* real coherence it is subtracted from is the diagonal as it was before the
\* diagonal was overwritten.
C8_ThresholdFromRowAndColumn ==
    /\ \A k \in DOMAIN thresh : \A s \in Scales :
           thresh[k][s] = CellPercentile(merged, xa, k, inp.percentile, s)
    /\ (pc = "loop" =>
            \A k \in ci..(xa - 1) : residual_coherence[k] = merged[k][k])
    /\ (pc = "returned" =>
            \A k \in 0..(xa - 1) : \A s \in Scales :
                LET d == Minus(merged[k][k][s], thresh[k][s])
                IN retval[k][s] = IF Negative(d) THEN Num(0) ELSE d)

\* A run with three subjects in which cells outside row k and column k are
\* larger than the threshold taken for subject k.
C8_Witness ==
    /\ pc = "returned"
    /\ xa >= 3
    /\ inp.percentile = 100
    /\ \E k \in 0..(xa - 1) : \E s \in Scales : \E i, j \in 0..(xa - 1) :
           /\ i # k /\ j # k /\ i # j
           /\ IsNum(merged[i][j][s]) /\ IsNum(thresh[k][s])
           /\ merged[i][j][s].v > thresh[k][s].v
           /\ thresh[k][s].v > 0

\* The surrogates of subject k are all NaN at scale s.
NoSurrogate(k, s) ==
    \A c \in SurrogateCells(xa, k) : IsNaN(merged[c[1]][c[2]][s])

\* C9 as stated, with its case N = 2: with two subjects no surrogate is left
\* for a subject, the percentile is replaced by 0 and the residual is the
\* real coherence, unchanged.
C9_TwoSubjectsUntouched ==
    (pc = "returned" /\ xa = 2) =>
        \A k \in 0..1 : \A s \in Scales :
            thresh[k][s] = Num(0) /\ retval[k][s] = merged[k][k][s]

\* C9 amended: whenever every surrogate cell of subject k is NaN at a scale,
\* the percentile is replaced by 0 and the residual is the real coherence.
C9_NoSurrogateLeavesReal ==
    \A k \in DOMAIN thresh : \A s \in Scales :
        NoSurrogate(k, s) =>
            /\ thresh[k][s] = Num(0)
            /\ (pc = "returned" => retval[k][s] = merged[k][k][s])

C9_Witness ==
    /\ pc = "returned"
    /\ \E k \in 0..(xa - 1) : \E s \in Scales :
           /\ NoSurrogate(k, s)
           /\ IsNum(merged[k][k][s]) /\ merged[k][k][s].v > 0
           /\ retval[k][s] = merged[k][k][s]

\* C10: for two arrays of N >= 2 subjects each, the outcome (the exception or
\* the Residual Coherence) is that of the run with one worker, whatever the
\* number of workers.
C10_SameAsOneWorker ==
    (Single /\ Terminal /\ WellFormed(call.g)) =>
        LET one == RefOutcome(call.g, 1, inp.percentile)
        IN err = one.err /\ retval = one.residual

=============================================================================
